---- MODULE Spec2Model ----
(***************************************************************************)
(* AI Debate Arena: the debate orchestration of src/src/App.tsx.           *)
(*                                                                         *)
(* The React component is modelled as a state machine.                     *)
(*   - `state` is the component state (useState).  An updater passed to    *)
(*     setState is applied to the current state and rendered in the step   *)
(*     that calls it.                                                      *)
(*   - The useEffect callbacks of a render run in the step FlushEffects,   *)
(*     once per render whose dependencies differ from those of the last    *)
(*     run (`effectDeps`).  The interval callback and the user events     *)
(*     wait for Settled: effects run within a frame of the render.         *)
(*     Discrete user events (submit, select, typing) are flushed           *)
(*     synchronously by React, effects included.  A provider answer may    *)
(*     arrive while the effects of the last render are still pending: its  *)
(*     update is queued first and the updaters of those effects are        *)
(*     applied on top of it, which is this step followed by FlushEffects   *)
(*     (the commit changes nothing the effects read).                      *)
(*   - Every function of the component closes over the `state` of the      *)
(*     render that created it.  startDebate hands its own render's         *)
(*     debateLoop to setTimeout, so a loop keeps the snapshot taken by the *)
(*     start request (`closure`); only the two refs are shared.            *)
(*   - A timeout or a provider call ends at any time after it was set or   *)
(*     issued: the platform bounds a delay only from below.                *)
(*   - A message text is a sequence of lower-case words; the pattern and   *)
(*     substring tests of the scorer are matches of whole words.           *)
(*   - A message carries `pts`, the points awarded for it when it was      *)
(*     committed (a history field; the scorer never reads it).             *)
(*   - The pure functions (scorer, winner rule) are also evaluated on      *)
(*     their own, on inputs drawn from bounded sets, in ScorerSpec; the    *)
(*     variable `probe` holds the inputs and the result and is idle in     *)
(*     Spec.                                                               *)
(***************************************************************************)
EXTENDS Integers, Sequences, FiniteSets, TLC

VARIABLES
    state,          \* the DebateState held by useState
    isDebatingRef,  \* isDebatingRef.current
    timeLeftRef,    \* timeLeftRef.current
    effectDeps,     \* dependency values of the render whose effects ran last
    loops,          \* one debateLoop chain per accepted start request
    startResult,    \* outcome of the latest start request (history variable)
    calls,          \* collaborator calls issued so far (history variable)
    probe,          \* inputs and result of one evaluation of a pure function
    server          \* one request to the server-side debate function

vars == <<state, isDebatingRef, timeLeftRef, effectDeps, loops, startResult, calls,
          probe, server>>

----------------------------------------------------------------------------
(* Bounds of the model *)

\* collaborator calls issued in one behaviour
MaxCalls == 3
\* start requests accepted in one behaviour
MaxDebates == 2
\* largest match count given to a criterion evaluated on its own
MaxCount == 6
\* longest history given to the scorer evaluated on its own
MaxHistory == 2
\* largest total given to the winner rule evaluated on its own
MaxPoints == 10
\* longest time, in seconds, a generation call of the server function takes
MaxLatency == 2

(* Program constants *)

SecondsPerMinute == 60
InitialDuration == 2
\* the <option> values offered by the duration selector, cut to two of them
DurationOptions == {1, 2}

null == "null"
Agents == {"gemini", "groq"}

Min(a, b) == IF a < b THEN a ELSE b

----------------------------------------------------------------------------
(* Texts *)

\* topics the user may type: the empty string and a two-word topic
Topics == {"", "robots taxes"}

\* topic.toLowerCase().split(" ")
TopicWords(topic) ==
    IF topic = "" THEN <<"">> ELSE <<"robots", "taxes">>

\* texts a provider may answer with
ArgTexts == {"a1"}

\* further texts the scorer is evaluated on
ScorerTexts == {"a2", "a3"}

ErrorGemini == "Error fetching response from Gemini."
ErrorGroq == "Error fetching response from Groq."
NoResponseGemini == "No response from Gemini"
NoResponseGroq == "No response from Groq"

\* message.toLowerCase(), as its sequence of words
Words(text) ==
    CASE text = "a1" -> <<"robots", "should", "however", "pay", "taxes">>
      [] text = "a2" -> <<"robots", "should", "never", "taxes", "people", "however">>
      [] text = "a3" -> <<"taxes", "matter">>
      [] text = ErrorGemini -> <<"error", "fetching", "response", "from", "gemini">>
      [] text = ErrorGroq -> <<"error", "fetching", "response", "from", "groq">>
      [] text = NoResponseGemini -> <<"no", "response", "from", "gemini">>
      [] text = NoResponseGroq -> <<"no", "response", "from", "groq">>
      [] OTHER -> <<>>

\* word.length
WordLen(w) ==
    CASE w \in {""} -> 0
      [] w \in {"no"} -> 2
      [] w \in {"pay"} -> 3
      [] w \in {"from", "groq"} -> 4
      [] w \in {"taxes", "error", "never"} -> 5
      [] w \in {"robots", "should", "gemini", "people", "matter"} -> 6
      [] w \in {"however"} -> 7
      [] w \in {"fetching", "response"} -> 8
      [] OTHER -> 0

\* lowerMessage.includes(word)
Includes(text, w) == \E k \in DOMAIN Words(text) : Words(text)[k] = w

\* (message.match(pattern) || []).length for a pattern of single words
MatchCount(text, indicators) ==
    Cardinality({k \in DOMAIN Words(text) : Words(text)[k] \in indicators})

\* seq.filter(...).length
FilterCount(seq, Test(_)) == Cardinality({k \in DOMAIN seq : Test(seq[k])})

ClarityIndicators ==
    {"first", "second", "third", "finally", "therefore", "thus", "however", "although"}
DepthIndicators ==
    {"autonomy", "moral", "philosophy", "belief", "value", "nuance", "complex",
     "context", "principle", "assumption", "framework", "diversity"}
EvidenceIndicators == {"statistically", "survey", "report", "study"}
ExampleIndicators == {"consider", "instance"}

----------------------------------------------------------------------------
(* Scorer *)

\* the return expressions of the five criteria, on their match counts
ClarityPoints(count) == Min(count * 2, 10)

DepthPoints(count) == Min(count * 2, 10)

EvidencePoints_Uncapped(evidenceCount, exampleCount) ==
    evidenceCount * 3 + exampleCount * 2

EvidencePoints(evidenceCount, exampleCount) ==
    Min(evidenceCount * 3 + exampleCount * 2, 10)

RelevancePoints(relevanceCount) == Min(relevanceCount * 2, 10)

\* PersuasivenessPoints giving nothing for an answer that rebuts nothing
PersuasivenessPoints_ZeroWithoutRebuttal(hasOpponent, rebuttals) ==
    IF ~hasOpponent THEN 5
    ELSE IF rebuttals >= 5 THEN 10
    ELSE IF rebuttals >= 3 THEN 7
    ELSE IF rebuttals >= 1 THEN 5
    ELSE 0

PersuasivenessPoints(hasOpponent, rebuttals) ==
    IF ~hasOpponent THEN 5
    ELSE IF rebuttals >= 5 THEN 10
    ELSE IF rebuttals >= 3 THEN 7
    ELSE IF rebuttals >= 1 THEN 5
    ELSE 3

\* the total of calculatePoints, on the five sub-scores
TotalPoints(clarity, depth, evidence, relevance, persuasiveness) ==
    Min(clarity + depth + evidence + relevance + persuasiveness, 50)

scoreClarity(message) == ClarityPoints(MatchCount(message, ClarityIndicators))

scoreDepth(message) == DepthPoints(MatchCount(message, DepthIndicators))

scoreEvidence(message) ==
    EvidencePoints(MatchCount(message, EvidenceIndicators),
                   MatchCount(message, ExampleIndicators))

scoreRelevance(message, topic) ==
    LET keep(word) == WordLen(word) > 3 /\ Includes(message, word)
    IN  RelevancePoints(FilterCount(TopicWords(topic), keep))

\* allMessages.filter((msg) => msg.agent !== agent)
OpponentMessages(allMessages, agent) ==
    SelectSeq(allMessages, LAMBDA msg : msg.agent # agent)

\* lastOpponentMessage.match(/\b\w{5,}\b/g) || []
RebuttalKeywords(text) == SelectSeq(Words(text), LAMBDA w : WordLen(w) >= 5)

scorePersuasiveness_FirstOpponent(message, allMessages, isGroq) ==
    LET agent == IF isGroq THEN "groq" ELSE "gemini"
        opponentMessages == OpponentMessages(allMessages, agent)
    IN  IF Len(opponentMessages) = 0 THEN PersuasivenessPoints(FALSE, 0)
        ELSE LET firstOpponentMessage == opponentMessages[1].message
                 keep(word) == Includes(message, word)
                 rebuttals == FilterCount(RebuttalKeywords(firstOpponentMessage), keep)
             IN  PersuasivenessPoints(TRUE, rebuttals)

scorePersuasiveness(message, allMessages, isGroq) ==
    LET agent == IF isGroq THEN "groq" ELSE "gemini"
        opponentMessages == OpponentMessages(allMessages, agent)
    IN  IF Len(opponentMessages) = 0 THEN PersuasivenessPoints(FALSE, 0)
        ELSE LET lastOpponentMessage == opponentMessages[Len(opponentMessages)].message
                 keep(word) == Includes(message, word)
                 rebuttals == FilterCount(RebuttalKeywords(lastOpponentMessage), keep)
             IN  PersuasivenessPoints(TRUE, rebuttals)

calculatePoints(message, allMessages, isGroq, topic) ==
    TotalPoints(scoreClarity(message), scoreDepth(message), scoreEvidence(message),
                scoreRelevance(message, topic),
                scorePersuasiveness(message, allMessages, isGroq))

calculateWinner_TieToGemini(geminiPoints, groqPoints) ==
    IF geminiPoints >= groqPoints THEN "gemini" ELSE "groq"

calculateWinner(geminiPoints, groqPoints) ==
    IF geminiPoints > groqPoints THEN "gemini"
    ELSE IF groqPoints > geminiPoints THEN "groq"
    ELSE "tie"

\* assignStances with the same branch order for both participants
assignStances_SameSide(favorFirst) ==
    [gemini |-> IF favorFirst THEN "favor" ELSE "oppose",
     groq   |-> IF favorFirst THEN "favor" ELSE "oppose"]

\* favorFirst is Math.random() > 0.5
assignStances(favorFirst) ==
    [gemini |-> IF favorFirst THEN "favor" ELSE "oppose",
     groq   |-> IF favorFirst THEN "oppose" ELSE "favor"]

----------------------------------------------------------------------------
(* Collaborators *)

\* What a provider call does in this model: it answers with a text or it fails.
\* (An answer with no text is the outcome "" of the two operators below.)
Outcomes == ArgTexts \cup {"fail"}

\* the value getGeminiChatCompletion resolves to
getGeminiChatCompletion(outcome) ==
    IF outcome = "fail" THEN ErrorGemini
    ELSE IF outcome = "" THEN NoResponseGemini
    ELSE outcome

\* the value getGroqChatCompletion resolves to
getGroqChatCompletion(outcome) ==
    IF outcome = "fail" THEN ErrorGroq
    ELSE IF outcome = "" THEN NoResponseGroq
    ELSE outcome

----------------------------------------------------------------------------
(* Component state and effects *)

InitialState ==
    [topic |-> "", duration |-> InitialDuration, messages |-> <<>>,
     isDebating |-> FALSE, winner |-> null, geminiPoints |-> 0, groqPoints |-> 0,
     timeLeft |-> InitialDuration * SecondsPerMinute, debateRound |-> 0,
     stance |-> [gemini |-> null, groq |-> null]]

\* the values the dependency arrays of the effects read from a render
Deps(s) == [isDebating |-> s.isDebating, timeLeft |-> s.timeLeft, duration |-> s.duration]

\* every effect of the latest render has run
Settled == Deps(state) = effectDeps

\* Deactivate with the two totals passed in the wrong order
Deactivate_SwappedTotals(prev) ==
    [prev EXCEPT !.isDebating = FALSE,
                 !.winner = calculateWinner(prev.groqPoints, prev.geminiPoints)]

\* the updater of the deactivation branch of the timer effect
Deactivate(prev) ==
    [prev EXCEPT !.isDebating = FALSE,
                 !.winner = calculateWinner(prev.geminiPoints, prev.groqPoints)]

\* TimerEffect announcing the winner without ending the debate
TimerEffect_KeepsRunning(s, prev) ==
    IF s.isDebating /\ s.timeLeft > 0 THEN prev
    ELSE IF s.timeLeft = 0
        THEN [prev EXCEPT !.winner = calculateWinner(prev.geminiPoints, prev.groqPoints)]
    ELSE prev

\* TimerEffect doing nothing when the countdown has reached 0
TimerEffect_NeverDeactivates(s, prev) == prev

\* the timer effect of a render s: its interval is live, or it deactivates
TimerEffect(s, prev) ==
    IF s.isDebating /\ s.timeLeft > 0 THEN prev
    ELSE IF s.timeLeft = 0 THEN Deactivate(prev)
    ELSE prev

\* the effect that restores the countdown while no debate runs
IdleResetEffect(s, prev) ==
    IF ~s.isDebating THEN [prev EXCEPT !.timeLeft = s.duration * SecondsPerMinute]
    ELSE prev

\* The effects of render r.state, in the order the component declares them;
\* their updaters are applied in that order and rendered.
RunEffects(r) ==
    LET s == r.state
        timerDeps == s.isDebating # r.deps.isDebating \/ s.timeLeft # r.deps.timeLeft
        resetDeps == s.duration # r.deps.duration \/ s.isDebating # r.deps.isDebating
        s1 == IF timerDeps THEN TimerEffect(s, s) ELSE s
        s2 == IF resetDeps THEN IdleResetEffect(s, s1) ELSE s1
    IN  [state |-> s2,
         deps |-> Deps(s),
         isDebatingRef |-> IF timerDeps THEN s.isDebating ELSE r.isDebatingRef,
         timeLeftRef |-> IF timerDeps THEN s.timeLeft ELSE r.timeLeftRef]

\* a discrete event: React renders the update and flushes effects until none is left
FlushSync(r) == RunEffects(RunEffects(RunEffects(r)))

Rendered(s) ==
    [state |-> s, deps |-> effectDeps,
     isDebatingRef |-> isDebatingRef, timeLeftRef |-> timeLeftRef]

Commit(r) ==
    /\ state' = r.state
    /\ effectDeps' = r.deps
    /\ isDebatingRef' = r.isDebatingRef
    /\ timeLeftRef' = r.timeLeftRef

\* the interval created by the timer effect is live
IntervalLive == effectDeps.isDebating /\ effectDeps.timeLeft > 0

----------------------------------------------------------------------------
(* Debate loops *)

\* what the functions of a render read from their closure
Snapshot(s) == [messages |-> s.messages, topic |-> s.topic, stance |-> s.stance]

DoneLoop ==
    [pc |-> "done", closure |-> Snapshot(InitialState), currentMessages |-> <<>>]

LoopIds == DOMAIN loops

\* what a provider call of loop l is given: the topic and the stance its
\* prompt is built from, and the messages argument
Prompt(l, agent) ==
    [topic |-> l.closure.topic, stance |-> l.closure.stance[agent],
     messages |-> l.currentMessages]

SetLoop(i, l) == loops' = [loops EXCEPT ![i] = l]

\* the test debateLoop and its delayed callback make on the refs
MayContinue == isDebatingRef /\ timeLeftRef > 0

\* runDebateRound up to its first await: the Gemini call is issued
BeginRound(i) ==
    /\ calls < MaxCalls
    /\ calls' = calls + 1
    /\ SetLoop(i, [loops[i] EXCEPT !.pc = "gemini",
                                   !.currentMessages = loops[i].closure.messages])

\* debateLoop: return, or run a round
debateLoop(i) ==
    IF ~MayContinue
        THEN SetLoop(i, DoneLoop) /\ UNCHANGED calls
        ELSE BeginRound(i)

\* no pure function is being evaluated on its own
NoProbe == [kind |-> "none"]

\* no request to the server-side function has been made
NoRequest == [pc |-> "idle"]

Init ==
    /\ state = InitialState
    /\ isDebatingRef = FALSE
    /\ timeLeftRef = InitialDuration * SecondsPerMinute
    /\ effectDeps = Deps(InitialState)
    /\ loops = <<>>
    /\ startResult = "none"
    /\ calls = 0
    /\ probe = NoProbe
    /\ server = NoRequest

----------------------------------------------------------------------------
(* User events *)

\* onChange of the topic input, which is disabled during a debate
ChangeTopic(topic) ==
    /\ Settled
    /\ ~state.isDebating
    /\ Commit(FlushSync(Rendered([state EXCEPT !.topic = topic])))
    /\ UNCHANGED <<loops, startResult, calls, probe, server>>

\* ChangeDuration with a selector that is never disabled
ChangeDuration_NeverDisabled(n) ==
    /\ Settled
    /\ Commit(FlushSync(Rendered([state EXCEPT !.duration = n])))
    /\ UNCHANGED <<loops, startResult, calls, probe, server>>

\* onChange of the duration selector, which is disabled during a debate
ChangeDuration(n) ==
    /\ Settled
    /\ ~state.isDebating
    /\ Commit(FlushSync(Rendered([state EXCEPT !.duration = n])))
    /\ UNCHANGED <<loops, startResult, calls, probe, server>>

\* StartUpdate without the reset of the winner
StartUpdate_KeepsWinner(prev, s, stanceAssignment) ==
    [prev EXCEPT !.isDebating = TRUE,
                 !.messages = <<>>,
                 !.geminiPoints = 0,
                 !.groqPoints = 0,
                 !.timeLeft = s.duration * SecondsPerMinute,
                 !.debateRound = 0,
                 !.stance = stanceAssignment]

\* the updater of startDebate; s is the state of the render that made the handler
StartUpdate(prev, s, stanceAssignment) ==
    [prev EXCEPT !.isDebating = TRUE,
                 !.messages = <<>>,
                 !.winner = null,
                 !.geminiPoints = 0,
                 !.groqPoints = 0,
                 !.timeLeft = s.duration * SecondsPerMinute,
                 !.debateRound = 0,
                 !.stance = stanceAssignment]

\* StartRejects without the test for a running debate
StartRejects_TopicOnly(s) == s.topic = ""

\* the early return of startDebate
StartRejects(s) == s.topic = "" \/ s.isDebating

\* handleSubmit -> startDebate
startDebate(favorFirst) ==
    /\ Settled
    /\ IF StartRejects(state)
         THEN /\ startResult' = "rejected"
              /\ UNCHANGED <<state, isDebatingRef, timeLeftRef, effectDeps, loops, calls>>
         ELSE /\ Len(loops) < MaxDebates
              /\ Commit(FlushSync(Rendered(
                     StartUpdate(state, state, assignStances(favorFirst)))))
              /\ loops' = Append(loops, [pc |-> "warmup", closure |-> Snapshot(state),
                                         currentMessages |-> <<>>])
              /\ startResult' = "accepted"
              /\ UNCHANGED calls
    /\ UNCHANGED <<probe, server>>

----------------------------------------------------------------------------
(* Timer and effects *)

\* Tick firing again before the effects of the previous tick have run
Tick_Unsettled ==
    /\ IntervalLive
    /\ state' = [state EXCEPT !.timeLeft = @ - 1]
    /\ UNCHANGED <<isDebatingRef, timeLeftRef, effectDeps, loops, startResult, calls, probe, server>>

\* the setInterval callback
Tick ==
    /\ Settled
    /\ IntervalLive
    /\ state' = [state EXCEPT !.timeLeft = @ - 1]
    /\ UNCHANGED <<isDebatingRef, timeLeftRef, effectDeps, loops, startResult, calls, probe, server>>

\* the effects of the latest render run
FlushEffects ==
    /\ ~Settled
    /\ Commit(RunEffects(Rendered(state)))
    /\ UNCHANGED <<loops, startResult, calls, probe, server>>

----------------------------------------------------------------------------
(* Steps of a debate loop *)

\* the 1000 ms timeout of startDebate fires
WarmupFire(i) ==
    /\ loops[i].pc = "warmup"
    /\ debateLoop(i)
    /\ UNCHANGED <<state, isDebatingRef, timeLeftRef, effectDeps, startResult, probe, server>>

\* CommitTurn crediting every turn to Gemini
CommitTurn_AllToGemini(prev, msg) ==
    [prev EXCEPT !.messages = Append(@, msg),
                 !.geminiPoints = @ + msg.pts,
                 !.debateRound = @ + 1]

\* CommitTurn putting the new message in front of the others
CommitTurn_Prepends(prev, msg) ==
    IF msg.agent = "gemini"
        THEN [prev EXCEPT !.messages = <<msg>> \o @,
                          !.geminiPoints = @ + msg.pts,
                          !.debateRound = @ + 1]
        ELSE [prev EXCEPT !.messages = <<msg>> \o @,
                          !.groqPoints = @ + msg.pts,
                          !.debateRound = @ + 1]

\* the state update that commits a turn
CommitTurn(prev, msg) ==
    IF msg.agent = "gemini"
        THEN [prev EXCEPT !.messages = Append(@, msg),
                          !.geminiPoints = @ + msg.pts,
                          !.debateRound = @ + 1]
        ELSE [prev EXCEPT !.messages = Append(@, msg),
                          !.groqPoints = @ + msg.pts,
                          !.debateRound = @ + 1]

\* the Gemini call resolves; the turn is scored and committed; the 3000 ms delay starts
GeminiResolve(i, outcome) ==
    /\ loops[i].pc = "gemini"
    /\ LET l == loops[i]
           geminiResponse == getGeminiChatCompletion(outcome)
           geminiPoints == calculatePoints(geminiResponse, l.currentMessages,
                                           FALSE, l.closure.topic)
           geminiMessage == [agent |-> "gemini", message |-> geminiResponse,
                             pts |-> geminiPoints]
       IN  /\ state' = CommitTurn(state, geminiMessage)
           /\ SetLoop(i, [l EXCEPT !.pc = "delay3",
                                   !.currentMessages = Append(@, geminiMessage)])
    /\ UNCHANGED <<isDebatingRef, timeLeftRef, effectDeps, startResult, calls, probe, server>>

\* the 3000 ms delay ends; the Groq call is issued
Delay3Fire(i) ==
    /\ loops[i].pc = "delay3"
    /\ calls < MaxCalls
    /\ calls' = calls + 1
    /\ SetLoop(i, [loops[i] EXCEPT !.pc = "groq"])
    /\ UNCHANGED <<state, isDebatingRef, timeLeftRef, effectDeps, startResult, probe, server>>

\* the Groq call resolves; the turn is scored and committed; the 10000 ms delay starts
GroqResolve(i, outcome) ==
    /\ loops[i].pc = "groq"
    /\ LET l == loops[i]
           groqResponse == getGroqChatCompletion(outcome)
           groqPoints == calculatePoints(groqResponse, l.currentMessages,
                                         TRUE, l.closure.topic)
           groqMessage == [agent |-> "groq", message |-> groqResponse,
                           pts |-> groqPoints]
       IN  /\ state' = CommitTurn(state, groqMessage)
           /\ SetLoop(i, [l EXCEPT !.pc = "delay10", !.currentMessages = <<>>])
    /\ UNCHANGED <<isDebatingRef, timeLeftRef, effectDeps, startResult, calls, probe, server>>

\* the 10000 ms timeout of debateLoop fires
Delay10Fire(i) ==
    /\ loops[i].pc = "delay10"
    /\ debateLoop(i)
    /\ UNCHANGED <<state, isDebatingRef, timeLeftRef, effectDeps, startResult, probe, server>>

----------------------------------------------------------------------------

Next ==
    \/ \E topic \in Topics : ChangeTopic(topic)
    \/ \E n \in DurationOptions : ChangeDuration(n)
    \/ \E favorFirst \in BOOLEAN : startDebate(favorFirst)
    \/ Tick
    \/ FlushEffects
    \/ \E i \in LoopIds : WarmupFire(i)
    \/ \E i \in LoopIds, outcome \in Outcomes : GeminiResolve(i, outcome)
    \/ \E i \in LoopIds : Delay3Fire(i)
    \/ \E i \in LoopIds, outcome \in Outcomes : GroqResolve(i, outcome)
    \/ \E i \in LoopIds : Delay10Fire(i)

Spec == Init /\ [][Next]_vars

\* The browser fires a live interval every second and React runs the pending
\* effects of a render; user events, timeouts and provider answers may never
\* come.
FairSpec == Spec /\ WF_vars(Tick) /\ WF_vars(FlushEffects)

----------------------------------------------------------------------------
(* The pure functions on their own: the scorer on match counts, the scorer *)
(* on texts and histories, and the winner rule on pairs of totals          *)

CountProbes ==
    [kind : {"counts"},
     clarity : 0..MaxCount, depth : 0..MaxCount,
     evidence : 0..MaxCount, example : 0..MaxCount,
     relevance : 0..MaxCount,
     hasOpponent : BOOLEAN, rebuttals : 0..MaxCount]

AllTexts ==
    ArgTexts \cup ScorerTexts
      \cup {ErrorGemini, ErrorGroq, NoResponseGemini, NoResponseGroq}

Histories ==
    UNION {[1..n -> [agent : Agents, message : AllTexts]] : n \in 0..MaxHistory}

TextProbes ==
    [kind : {"texts"}, message : AllTexts, allMessages : Histories,
     isGroq : BOOLEAN, topic : Topics]

WinnerProbes ==
    [kind : {"totals"}, geminiPoints : 0..MaxPoints, groqPoints : 0..MaxPoints]

ScorerInit ==
    /\ state = InitialState
    /\ isDebatingRef = InitialState.isDebating
    /\ timeLeftRef = InitialState.timeLeft
    /\ effectDeps = Deps(InitialState)
    /\ loops = <<>>
    /\ startResult = "none"
    /\ calls = 0
    /\ probe \in CountProbes \cup TextProbes \cup WinnerProbes
    /\ server = NoRequest

\* the five return expressions and the total, on given match counts
ScoreCounts ==
    /\ probe.kind = "counts"
    /\ LET clarity == ClarityPoints(probe.clarity)
           depth == DepthPoints(probe.depth)
           evidence == EvidencePoints(probe.evidence, probe.example)
           relevance == RelevancePoints(probe.relevance)
           persuasiveness == PersuasivenessPoints(probe.hasOpponent, probe.rebuttals)
       IN  probe' = [kind |-> "countsScored", input |-> probe,
                     clarity |-> clarity, depth |-> depth, evidence |-> evidence,
                     relevance |-> relevance, persuasiveness |-> persuasiveness,
                     total |-> TotalPoints(clarity, depth, evidence, relevance,
                                           persuasiveness)]
    /\ UNCHANGED <<state, isDebatingRef, timeLeftRef, effectDeps, loops,
                   startResult, calls, server>>

\* calculatePoints and its five criteria, on a message, history, owner, topic
ScoreTexts ==
    /\ probe.kind = "texts"
    /\ probe' = [kind |-> "textsScored", input |-> probe,
                 clarity |-> scoreClarity(probe.message),
                 depth |-> scoreDepth(probe.message),
                 evidence |-> scoreEvidence(probe.message),
                 relevance |-> scoreRelevance(probe.message, probe.topic),
                 persuasiveness |->
                     scorePersuasiveness(probe.message, probe.allMessages,
                                         probe.isGroq),
                 total |-> calculatePoints(probe.message, probe.allMessages,
                                           probe.isGroq, probe.topic)]
    /\ UNCHANGED <<state, isDebatingRef, timeLeftRef, effectDeps, loops,
                   startResult, calls, server>>

\* calculateWinner on a pair of totals, and once more on the same pair
DecideWinner ==
    /\ \/ /\ probe.kind = "totals"
          /\ probe' = [kind |-> "decided", input |-> probe, times |-> 1,
                       winner |-> calculateWinner(probe.geminiPoints,
                                                  probe.groqPoints)]
       \/ /\ probe.kind = "decided"
          /\ probe.times = 1
          /\ probe' = [probe EXCEPT
                         !.times = 2,
                         !.winner = calculateWinner(probe.input.geminiPoints,
                                                    probe.input.groqPoints)]
    /\ UNCHANGED <<state, isDebatingRef, timeLeftRef, effectDeps, loops,
                   startResult, calls, server>>

ScorerNext ==
    \/ ScoreCounts
    \/ ScoreTexts
    \/ DecideWinner

ScorerSpec == ScorerInit /\ [][ScorerNext]_vars

----------------------------------------------------------------------------
(* The server-side debate function (supabase/functions/debate/index.ts).   *)
(* Time is counted in seconds from startTime.  `server.stream` is what has *)
(* been written to the response stream, `firstPick` the random initial     *)
(* value of lastAgent (a history field).                                   *)

ServerAgents == {"gemini", "qroq"}

\* durations, in minutes, a request may carry
ServerDurations == {0, 1}

\* the delay between two messages, in seconds
MessageDelay == 2

\* lastAgent === 'gemini' ? 'qroq' : 'gemini'
OtherAgent(lastAgent) == IF lastAgent = "gemini" THEN "qroq" ELSE "gemini"

\* texts the analysis call may answer with
AnalysisTexts == {"GEMINI", "QROQ", " Gemini ", "Neither"}

\* analysis.response.text().trim().toLowerCase()
TrimLower(text) ==
    CASE text = "GEMINI" -> "gemini"
      [] text = "QROQ" -> "qroq"
      [] text = " Gemini " -> "gemini"
      [] text = "Neither" -> "neither"
      [] OTHER -> text

\* the test of the while loop, and where the function goes from it
AfterLoopTest(now, endTime) == IF now < endTime THEN "generate" ELSE "analysis"

ServerInit ==
    /\ state = InitialState
    /\ isDebatingRef = InitialState.isDebating
    /\ timeLeftRef = InitialState.timeLeft
    /\ effectDeps = Deps(InitialState)
    /\ loops = <<>>
    /\ startResult = "none"
    /\ calls = 0
    /\ probe = NoProbe
    /\ server = NoRequest

\* an OPTIONS request is answered with the CORS headers alone
ServeOptions ==
    /\ server.pc = "idle"
    /\ server' = [pc |-> "preflight"]
    /\ UNCHANGED <<state, isDebatingRef, timeLeftRef, effectDeps, loops,
                   startResult, calls, probe>>

\* a request whose body cannot be read is answered with status 500
ServeUnreadable ==
    /\ server.pc = "idle"
    /\ server' = [pc |-> "error500"]
    /\ UNCHANGED <<state, isDebatingRef, timeLeftRef, effectDeps, loops,
                   startResult, calls, probe>>

\* a debate request: the stream is returned and debate() runs up to its
\* first await
ServeDebate(duration, pick) ==
    /\ server.pc = "idle"
    /\ server' = [pc |-> AfterLoopTest(0, duration * SecondsPerMinute),
                  now |-> 0, endTime |-> duration * SecondsPerMinute,
                  lastAgent |-> pick, firstPick |-> pick, stream |-> <<>>]
    /\ UNCHANGED <<state, isDebatingRef, timeLeftRef, effectDeps, loops,
                   startResult, calls, probe>>

\* GenerateResolve repeating the last speaker
GenerateResolve_SameAgent(outcome, latency) ==
    /\ server.pc = "generate"
    /\ IF outcome = "fail"
         THEN server' = [server EXCEPT !.pc = "aborted", !.now = @ + latency]
         ELSE LET currentAgent == server.lastAgent
              IN  server' = [server EXCEPT
                               !.pc = "delay",
                               !.now = @ + latency,
                               !.stream = Append(@, [type |-> "message",
                                                     agent |-> currentAgent]),
                               !.lastAgent = currentAgent]
    /\ UNCHANGED <<state, isDebatingRef, timeLeftRef, effectDeps, loops,
                   startResult, calls, probe>>

\* the generation call of a turn ends: the message is written and the delay
\* starts, or the call failed and the catch of debate() aborts the stream
GenerateResolve(outcome, latency) ==
    /\ server.pc = "generate"
    /\ IF outcome = "fail"
         THEN server' = [server EXCEPT !.pc = "aborted", !.now = @ + latency]
         ELSE LET currentAgent == OtherAgent(server.lastAgent)
              IN  server' = [server EXCEPT
                               !.pc = "delay",
                               !.now = @ + latency,
                               !.stream = Append(@, [type |-> "message",
                                                     agent |-> currentAgent]),
                               !.lastAgent = currentAgent]
    /\ UNCHANGED <<state, isDebatingRef, timeLeftRef, effectDeps, loops,
                   startResult, calls, probe>>

\* the delay between messages ends and the loop test is made
DelayFire ==
    /\ server.pc = "delay"
    /\ LET now == server.now + MessageDelay
       IN  server' = [server EXCEPT !.now = now,
                                    !.pc = AfterLoopTest(now, server.endTime)]
    /\ UNCHANGED <<state, isDebatingRef, timeLeftRef, effectDeps, loops,
                   startResult, calls, probe>>

\* the analysis call ends: the winner record is written and the stream is
\* closed, or the call failed and the stream is aborted
AnalysisResolve(outcome, latency) ==
    /\ server.pc = "analysis"
    /\ IF outcome = "fail"
         THEN server' = [server EXCEPT !.pc = "aborted", !.now = @ + latency]
         ELSE LET winner == TrimLower(outcome)
              IN  server' = [server EXCEPT
                               !.pc = "closed",
                               !.now = @ + latency,
                               !.stream = Append(@,
                                   [type |-> "winner",
                                    agent |-> IF winner = "gemini" THEN "gemini"
                                              ELSE "qroq"])]
    /\ UNCHANGED <<state, isDebatingRef, timeLeftRef, effectDeps, loops,
                   startResult, calls, probe>>

ServerNext ==
    \/ ServeOptions
    \/ ServeUnreadable
    \/ \E duration \in ServerDurations, pick \in ServerAgents : ServeDebate(duration, pick)
    \/ \E outcome \in {"text", "fail"}, latency \in 0..MaxLatency :
           GenerateResolve(outcome, latency)
    \/ DelayFire
    \/ \E outcome \in AnalysisTexts \cup {"fail"}, latency \in 0..MaxLatency :
           AnalysisResolve(outcome, latency)

ServerSpec == ServerInit /\ [][ServerNext]_vars

----------------------------------------------------------------------------
(* Properties *)

Points(s) == <<s.geminiPoints, s.groqPoints>>

\* w is the verdict the winner rule gives for the totals g and q
IsVerdict(w, g, q) ==
    \/ g > q /\ w = "gemini"
    \/ q > g /\ w = "groq"
    \/ g = q /\ w = "tie"

Complementary(st) ==
    \/ st.gemini = "favor" /\ st.groq = "oppose"
    \/ st.gemini = "oppose" /\ st.groq = "favor"

InRound(i) == loops[i].pc \in {"gemini", "delay3", "groq"}

RECURSIVE SumPts(_, _)
SumPts(msgs, agent) ==
    IF msgs = <<>> THEN 0
    ELSE (IF Head(msgs).agent = agent THEN Head(msgs).pts ELSE 0) + SumPts(Tail(msgs), agent)

\* C1: when the countdown of a running debate has reached 0 the next change of
\* the running flag, the winner or the remaining time ends the debate and sets
\* the winner to the verdict on the totals of that instant (a turn may still
\* be committed before); the winner leaves Unset only in such a step (so once per
\* debate, since only a start makes the debate running again), and a debate
\* that has ended has a winner.
C1_DeactivationSetsWinnerOnce ==
    /\ [][(/\ state.isDebating /\ state.timeLeft = 0
            /\ \/ state'.isDebating # state.isDebating
               \/ state'.winner # state.winner
               \/ state'.timeLeft # state.timeLeft)
            => (/\ ~state'.isDebating
                /\ IsVerdict(state'.winner, state.geminiPoints, state.groqPoints))]_vars
    /\ [][(state.winner = null /\ state'.winner # null)
            => (/\ state.isDebating /\ state.timeLeft = 0
                /\ ~state'.isDebating
                /\ IsVerdict(state'.winner, state.geminiPoints, state.groqPoints))]_vars
    /\ []((~state.isDebating /\ Len(loops) > 0) => state.winner # null)

\* a debate has just been ended by the countdown, with a participant ahead
C1_Witness ==
    /\ ~state.isDebating /\ state.timeLeft = 0 /\ Len(loops) > 0
    /\ state.winner \in Agents

\* C2: while no debate runs neither total changes, and a winner that is set
\* is the verdict on the current totals.
C2_ScoresFrozenAfterDeactivation ==
    /\ [][(~state.isDebating /\ ~state'.isDebating) => Points(state') = Points(state)]_vars
    /\ [](state.winner # null
            => IsVerdict(state.winner, state.geminiPoints, state.groqPoints))

\* C3: every collaborator call (the start of a participant's turn) is issued
\* in a state where the debate runs and time remains.
C3_TurnsStartOnlyWhileRunning ==
    [][calls' # calls => (state.isDebating /\ state.timeLeft > 0)]_vars

\* C4: at most one round is in progress.
C4_AtMostOneRound == Cardinality({i \in LoopIds : InRound(i)}) <= 1

\* C5: a turn whose collaborator call fails appends no message, changes no
\* total and leaves the debate running.
C5_FailedCallChangesNothing ==
    [][(\E i \in LoopIds : GeminiResolve(i, "fail") \/ GroqResolve(i, "fail"))
         => (/\ state'.messages = state.messages
             /\ Points(state') = Points(state)
             /\ state'.isDebating = state.isDebating)]_vars

\* C6: a start request made with an empty topic, or while a debate runs, is
\* rejected: it changes no field of the state, neither ref, and schedules
\* no round.
C6_InvalidStartRejected ==
    [][((state.topic = "" \/ state.isDebating)
          /\ (startResult' # startResult \/ Len(loops') # Len(loops)))
         => (/\ startResult' = "rejected"
             /\ UNCHANGED <<state, isDebatingRef, timeLeftRef, effectDeps, loops, calls>>)]_vars

\* a start request was rejected during a debate that has messages
C6_Witness ==
    /\ startResult = "rejected"
    /\ state.isDebating
    /\ state.messages # <<>>

\* C7: an accepted start request yields a running debate with no messages,
\* both totals 0, no winner, the countdown at the selected duration in
\* seconds and a fresh pair of stances.
C7_StartResets ==
    [][Len(loops') # Len(loops)
         => (/\ ~state.isDebating
             /\ state'.isDebating
             /\ state'.messages = <<>>
             /\ Points(state') = <<0, 0>>
             /\ state'.winner = null
             /\ state'.timeLeft = state.duration * 60
             /\ state'.duration = state.duration
             /\ Complementary(state'.stance))]_vars

\* a second debate has started from the state the first one left behind
\* (its messages are what the new loop closed over)
C7_Witness ==
    /\ Len(loops) = 2
    /\ loops[2].pc = "warmup"
    /\ loops[2].closure.messages # <<>>
    /\ loops[2].closure.stance.gemini # null
    /\ state.isDebating /\ state.messages = <<>> /\ state.winner = null

\* C8: each total is the sum of the points of the participant's messages.
C8_TotalsMatchMessages ==
    /\ state.geminiPoints = SumPts(state.messages, "gemini")
    /\ state.groqPoints = SumPts(state.messages, "groq")

\* both participants have scored
C8_Witness ==
    /\ state.geminiPoints > 0 /\ state.groqPoints > 0
    /\ Len(state.messages) >= 3

\* C9: while the debate runs the winner is Unset.
C9_NoWinnerWhileRunning == state.isDebating => state.winner = null

\* a second debate runs after the first one got a winner
C9_Witness ==
    /\ Len(loops) = 2 /\ state.isDebating /\ state.messages # <<>>

\* C10: assignStances gives one participant Favor and the other Oppose; a
\* running debate has complementary stances, and no step taken while it runs
\* changes them.
C10_StancesComplementary ==
    /\ [](\A favorFirst \in BOOLEAN : Complementary(assignStances(favorFirst)))
    /\ [](state.isDebating => Complementary(state.stance))
    /\ [][state.isDebating => state'.stance = state.stance]_vars

\* a running debate in which Gemini opposes, after a turn was committed
C10_Witness ==
    /\ state.isDebating /\ state.stance.gemini = "oppose"
    /\ state.messages # <<>>

\* loop i issues the call to `agent` in this step
Issues(i, agent) == loops[i].pc # agent /\ loops'[i].pc = agent

\* the call of loop i to `agent` resolves in this step (the turn is scored
\* and committed)
Resolves(i, agent) == loops[i].pc = agent /\ loops'[i].pc # agent

\* C13: for every turn, the history given to the provider call and to the
\* scorer is the message sequence of the current debate as it stands before
\* the turn's message is appended.
C13_HistoryIsSessionMessages ==
    [][\A i \in LoopIds : \A agent \in Agents :
          /\ Issues(i, agent) => Prompt(loops'[i], agent).messages = state.messages
          /\ Resolves(i, agent) => loops[i].currentMessages = state.messages]_vars

\* C14: for every turn of a running debate, the stance and the topic given to
\* the provider call are the stance the start of this debate assigned to the
\* participant (never Unassigned, never a previous debate's) and this debate's
\* topic.
C14_PromptStanceAndTopic ==
    [][\A i \in LoopIds : \A agent \in Agents :
          (Issues(i, agent) /\ state.isDebating) =>
              /\ Prompt(loops'[i], agent).stance # null
              /\ Prompt(loops'[i], agent).stance = state.stance[agent]
              /\ Prompt(loops'[i], agent).topic = state.topic]_vars

\* C15: turns alternate with Gemini first: odd positions of messages are
\* Gemini's and even positions Groq's; Groq's call of a round is issued only
\* after Gemini's call has resolved and its message has been committed, and
\* Groq's context ends with that message.
C15_TurnsAlternate ==
    /\ [](\A k \in DOMAIN state.messages :
            state.messages[k].agent = IF k % 2 = 1 THEN "gemini" ELSE "groq")
    /\ [][\A i \in LoopIds :
            Issues(i, "groq") =>
                /\ loops[i].pc = "delay3"
                /\ Len(Prompt(loops'[i], "groq").messages) > 0
                /\ LET context == Prompt(loops'[i], "groq").messages
                       own == context[Len(context)]
                   IN  own.agent = "gemini"]_vars

\* C17: the remaining time is always an integer >= 0; it changes during a
\* running debate only by a tick, which happens at a remaining time above 0
\* and takes exactly 1 off; while no debate runs it is never ticked down: it
\* changes only to the full duration in seconds.
C17_CountdownSteps ==
    /\ [](state.timeLeft \in Nat)
    /\ [][(state.isDebating /\ state'.timeLeft # state.timeLeft)
            => (/\ state'.isDebating
                /\ state.timeLeft > 0
                /\ state'.timeLeft = state.timeLeft - 1)]_vars
    /\ [][(~state.isDebating /\ state'.timeLeft # state.timeLeft)
            => state'.timeLeft = state'.duration * 60]_vars

\* a running debate has been ticked down to 0 (and is about to deactivate)
C17_Witness ==
    /\ state.isDebating /\ state.timeLeft = 0
    /\ state.messages # <<>>

\* s is an initial segment of t
IsPrefix(s, t) == Len(s) <= Len(t) /\ SubSeq(t, 1, Len(s)) = s

\* C19: during a running debate messages is append-only: every step keeps the
\* previous sequence as a prefix of the new one (a start is not such a step:
\* it happens only while no debate runs).
C19_MessagesAppendOnly ==
    [][state.isDebating => IsPrefix(state.messages, state'.messages)]_vars

\* a running debate with messages of both participants
C19_Witness ==
    /\ state.isDebating
    /\ Len(state.messages) >= 2
    /\ state.messages[1].agent # state.messages[2].agent

\* C20: the duration changes only while no debate runs (before and after the
\* change); the change leaves the rest of the session state as it was, except
\* that the remaining time becomes the new duration in seconds; and whenever
\* the session is idle with its effects run (so whenever a start can be
\* requested) the remaining time is the duration in seconds.
C20_DurationOnlyWhileIdle ==
    /\ [][state'.duration # state.duration =>
            /\ ~state.isDebating
            /\ state' = [state EXCEPT !.duration = state'.duration,
                                      !.timeLeft = state'.duration * 60]]_vars
    /\ []((~state.isDebating /\ Settled) => state.timeLeft = state.duration * 60)

\* the duration was changed to one minute after a debate had ended
C20_Witness ==
    /\ ~state.isDebating
    /\ state.winner # null
    /\ state.duration = 1 /\ state.timeLeft = 60

\* C16: with the interval firing and effects running, every running debate
\* eventually is deactivated with a winner set, whatever its rounds do (a
\* provider call may never return, a delay may never end); and as long as the
\* debate runs with time left, the tick is not held up by any round.
C16_DebateEnds ==
    /\ state.isDebating ~> (~state.isDebating /\ state.winner # null)
    /\ []((state.isDebating /\ state.timeLeft > 0 /\ Settled) => ENABLED Tick)

\* a debate has ended with a winner while its Gemini call is still pending
C16_Witness ==
    /\ ~state.isDebating /\ state.winner # null
    /\ Len(loops) = 1 /\ loops[1].pc = "gemini"

\* loop i was started by the i-th accepted start; the debate that runs is the
\* one of the latest start
Leftover(i) == state.isDebating /\ i < Len(loops)

\* C21: what a running debate's messages and totals hold comes from rounds of
\* that debate: while a later debate runs, a loop left over from an earlier
\* debate never commits a turn (message and points), never issues a provider
\* call and never begins a round.
C21_NoLeftoverRound ==
    [][\A i \in LoopIds : \A agent \in Agents :
          Leftover(i) => (~Resolves(i, agent) /\ ~Issues(i, agent))]_vars

\* C22: whenever no debate runs and the effects have run, the remaining time
\* is the selected duration in seconds; once a debate has been deactivated
\* the timer effect changes nothing any more (the deactivation does not fire
\* again), and the winner set at deactivation stays until the next start.
C22_IdleRestoredWinnerKept ==
    /\ []((~state.isDebating /\ Settled) => state.timeLeft = state.duration * 60)
    /\ [](~state.isDebating => TimerEffect(state, state) = state)
    /\ [][(state.winner # null /\ state'.winner # state.winner)
            => (state'.isDebating /\ state'.winner = null)]_vars

\* the number of messages of participant p in messages
Spoken(p) == Cardinality({k \in DOMAIN state.messages : state.messages[k].agent = p})

\* the score total of participant p
Total(s, p) == IF p = "gemini" THEN s.geminiPoints ELSE s.groqPoints

\* C23: every committed turn adds between 3 and 50 points to its owner's
\* total: a participant with n messages has a total between 3*n and 50*n,
\* so one who has spoken never has 0.
C23_TurnPointsBounds ==
    /\ [](\A p \in Agents :
            /\ 3 * Spoken(p) <= Total(state, p)
            /\ Total(state, p) <= 50 * Spoken(p))
    /\ [][Len(state'.messages) = Len(state.messages) + 1 =>
            LET p == state'.messages[Len(state'.messages)].agent
            IN  Total(state', p) - Total(state, p) \in 3..50]_vars

\* a turn that earned the minimum of 3 points has been committed next to others
C23_Witness ==
    /\ Len(state.messages) >= 2
    /\ \E p \in Agents : Total(state, p) = 3 /\ Spoken(p) = 1

----------------------------------------------------------------------------
(* The scorer and the winner rule on their own (ScorerSpec) *)

Scored == probe.kind \in {"countsScored", "textsScored"}

\* C11: whatever the message, history, topic and owner, and whatever the
\* non-negative match counts, the total score is an integer between 0 and 50
\* and each of the five sub-scores is between 0 and 10.
C11_ScoresInRange ==
    Scored =>
        /\ probe.total \in 0..50
        /\ probe.clarity \in 0..10
        /\ probe.depth \in 0..10
        /\ probe.evidence \in 0..10
        /\ probe.relevance \in 0..10
        /\ probe.persuasiveness \in 0..10

\* counts whose uncapped products exceed 10 have been scored
C11_Witness ==
    /\ probe.kind = "countsScored"
    /\ probe.input.clarity * 2 > 10
    /\ probe.input.evidence * 3 + probe.input.example * 2 > 10
    /\ probe.evidence = 10
    /\ probe.total > 40

\* C12: for every pair of totals the winner rule answers gemini exactly when
\* gemini's total is the larger, groq exactly when groq's is the larger and
\* tie exactly when they are equal; deciding again on the same totals gives
\* the same answer.
C12_WinnerRule ==
    /\ [](probe.kind = "decided" =>
            LET g == probe.input.geminiPoints
                q == probe.input.groqPoints
            IN  /\ probe.winner = "gemini" <=> g > q
                /\ probe.winner = "groq" <=> q > g
                /\ probe.winner = "tie" <=> g = q)
    /\ [][(probe.kind = "decided" /\ probe'.kind = "decided")
            => probe'.winner = probe.winner]_vars

\* equal totals have been decided twice
C12_Witness ==
    /\ probe.kind = "decided"
    /\ probe.times = 2
    /\ probe.input.geminiPoints = probe.input.groqPoints
    /\ probe.input.geminiPoints > 0

\* the positions in history of the messages of participants other than owner
Opposing(history, owner) == {k \in DOMAIN history : history[k].agent # owner}

\* the number of words of at least five letters of `opposing` that occur in
\* `message`
Echoed(opposing, message) ==
    Cardinality({k \in DOMAIN Words(opposing) :
                    /\ WordLen(Words(opposing)[k]) >= 5
                    /\ Includes(message, Words(opposing)[k])})

\* the persuasiveness the claim states for r echoed words
Banded(r) == IF r >= 5 THEN 10 ELSE IF r >= 3 THEN 7 ELSE IF r >= 1 THEN 5 ELSE 3

\* C18: persuasiveness is 5 when the history holds no message of another
\* participant than the owner; otherwise it is determined by the most recent
\* such message alone: with r the number of its words of five letters or more
\* that occur in the scored message, it is 10 for r >= 5, 7 for 3 <= r < 5,
\* 5 for 1 <= r < 3 and 3 for r = 0.
C18_Persuasiveness ==
    /\ probe.kind = "textsScored" =>
          LET owner == IF probe.input.isGroq THEN "groq" ELSE "gemini"
              history == probe.input.allMessages
              opp == Opposing(history, owner)
          IN  IF opp = {} THEN probe.persuasiveness = 5
              ELSE LET last == CHOOSE k \in opp : \A j \in opp : j <= k
                   IN  probe.persuasiveness
                         = Banded(Echoed(history[last].message, probe.input.message))
    /\ probe.kind = "countsScored" =>
          probe.persuasiveness
            = IF probe.input.hasOpponent THEN Banded(probe.input.rebuttals) ELSE 5

\* a message scored against a history of two opposing messages of which the
\* first echoes nothing and the most recent one echoes five words or more
C18_Witness ==
    /\ probe.kind = "textsScored"
    /\ Len(probe.input.allMessages) = 2
    /\ \A k \in 1..2 : probe.input.allMessages[k].agent = "groq"
    /\ ~probe.input.isGroq
    /\ Echoed(probe.input.allMessages[1].message, probe.input.message) = 0
    /\ Echoed(probe.input.allMessages[2].message, probe.input.message) >= 5
    /\ probe.persuasiveness = 10

----------------------------------------------------------------------------
(* The server-side debate function (ServerSpec) *)

Streaming == server.pc \in {"generate", "delay", "analysis", "closed", "aborted"}

WinnerRecords == {k \in DOMAIN server.stream : server.stream[k].type = "winner"}

\* C24: in the stream of the server-side function consecutive messages are
\* of different agents and the first speaker is the opposite of the random
\* initial pick; a stream that is closed holds exactly one winner record,
\* which is its last record (after every message); a winner record names one
\* of the two participants; and a failing generation call aborts the stream,
\* which then holds no winner record.
C24_ServerStream ==
    /\ [](Streaming =>
            /\ \A k \in DOMAIN server.stream :
                   /\ server.stream[k].agent \in {"gemini", "qroq"}
                   /\ (k > 1 /\ server.stream[k].type = "message")
                         => server.stream[k].agent # server.stream[k - 1].agent
            /\ (server.stream # <<>> /\ server.stream[1].type = "message")
                  => server.stream[1].agent # server.firstPick
            /\ WinnerRecords \subseteq {Len(server.stream)}
            /\ server.pc = "closed" <=> WinnerRecords # {}
            /\ server.pc = "aborted" => WinnerRecords = {})
    /\ [][(\E latency \in 0..MaxLatency :
              GenerateResolve("fail", latency) \/ AnalysisResolve("fail", latency))
            => (server'.pc = "aborted" /\ server'.stream = server.stream)]_vars

\* a debate of several messages was closed with the winner that an answer
\* naming neither participant gives
C24_Witness ==
    /\ server.pc = "closed"
    /\ Len(server.stream) >= 4
    /\ server.firstPick = "qroq"
    /\ server.stream[Len(server.stream)].agent = "qroq"

============================================================================
